---- MODULE Spec2Model ----
(***************************************************************************)
(* Model of autograd/blocks/block.py: Block.__call__, Block.gradient_forward*)
(* and SimpleBlock.get_jacobians, in forward and in reverse mode.           *)
(*                                                                          *)
(* A numpy array is a record [shape, v]: its shape tuple and its elements   *)
(* in row-major order, over the integers.  A raised Python exception is a   *)
(* result record whose err field names the exception class.                 *)
(***************************************************************************)
EXTENDS Integers, Sequences, FiniteSets, TLC

\* mode:      ad.mode, "forward" or "reverse"
\* variables: the Variables built so far, the leaf first
\* nodes:     the Nodes built so far, in the order of their creation; a
\*            Variable and a child edge hold a node by its number
\* made:      for each Variable, the application that returned it
\* last:      the latest application: block, inputs, the exception raised
\*            ("" when none), the Variable returned (0 when none), the
\*            nodes before the call, the jacobians get_jacobians returned
\* passed:    the positional inputs passed so far, all applications together
\* raised:    the applications so far that raised
VARIABLES mode, variables, nodes, made, last, passed, raised

vars == <<mode, variables, nodes, made, last, passed, raised>>

(* ------------------------------ bounds --------------------------------- *)

\* largest number of elements of the 1-D leaf input (and side of a 2-D array)
MaxDim == 2
\* largest number of positional inputs passed to blocks in one behaviour,
\* all applications together
MaxInputs == 3

\* element values of the leaf input
LeafVals == {-1, 1}
\* element values of the arrays handed to np.diag
DiagVals == {0, 1, 2}

(* --------------------------- numpy arrays ------------------------------ *)

Arr(shape, v) == [shape |-> shape, v |-> v]

\* Python's None where an array is expected
None == Arr(<<-1>>, <<>>)

ndim(a) == Len(a.shape)

\* element (i, j), 1-based, of a 2-D array
At(a, i, j) == a.v[(i - 1) * a.shape[2] + j]

Min(a, b) == IF a <= b THEN a ELSE b

Ok(val) == [err |-> "", val |-> val]

Raise(e) == [err |-> e, val |-> None]

\* np.identity(n)
np_identity(n) ==
    Arr(<<n, n>>, [k \in 1..(n * n) |-> IF (k - 1) \div n = (k - 1) % n THEN 1 ELSE 0])

\* np.diag(elts): a 1-D array becomes the square matrix with it on the
\* diagonal; a 2-D array yields its diagonal as a 1-D array; any other rank
\* raises ValueError.
np_diag(elts) ==
    IF ndim(elts) = 1
    THEN LET n == elts.shape[1]
         IN Ok(Arr(<<n, n>>,
                   [k \in 1..(n * n) |->
                       IF (k - 1) \div n = (k - 1) % n
                       THEN elts.v[((k - 1) \div n) + 1] ELSE 0]))
    ELSE IF ndim(elts) = 2
    THEN LET n == Min(elts.shape[1], elts.shape[2])
         IN Ok(Arr(<<n>>, [i \in 1..n |-> At(elts, i, i)]))
    ELSE Raise("ValueError")

RECURSIVE SumRows(_)
SumRows(arrs) ==
    IF arrs = <<>> THEN 0 ELSE arrs[1].shape[1] + SumRows(Tail(arrs))

RECURSIVE SumCols(_)
SumCols(arrs) ==
    IF arrs = <<>> THEN 0 ELSE arrs[1].shape[2] + SumCols(Tail(arrs))

RECURSIVE FlatAll(_)
FlatAll(arrs) ==
    IF arrs = <<>> THEN <<>> ELSE arrs[1].v \o FlatAll(Tail(arrs))

\* row i of the arrays laid side by side
RECURSIVE RowAcross(_, _)
RowAcross(arrs, i) ==
    IF arrs = <<>> THEN <<>>
    ELSE [j \in 1..arrs[1].shape[2] |-> At(arrs[1], i, j)] \o RowAcross(Tail(arrs), i)

RECURSIVE RowsFrom(_, _, _)
RowsFrom(arrs, i, r) ==
    IF i > r THEN <<>> ELSE RowAcross(arrs, i) \o RowsFrom(arrs, i + 1, r)

\* np.concatenate(arrs, axis=0) of arrays of rank 1 or 2
np_concatenate0(arrs) ==
    IF arrs = <<>> THEN Raise("ValueError")
    ELSE IF \E k \in 1..Len(arrs) : arrs[k] = None THEN Raise("ValueError")
    ELSE IF \E k \in 1..Len(arrs) : ndim(arrs[k]) = 0 THEN Raise("ValueError")
    ELSE IF \E k \in 1..Len(arrs) : ndim(arrs[k]) # ndim(arrs[1]) THEN Raise("ValueError")
    ELSE IF ndim(arrs[1]) = 2
            /\ \E k \in 1..Len(arrs) : arrs[k].shape[2] # arrs[1].shape[2]
    THEN Raise("ValueError")
    ELSE IF ndim(arrs[1]) = 2
    THEN Ok(Arr(<<SumRows(arrs), arrs[1].shape[2]>>, FlatAll(arrs)))
    ELSE Ok(Arr(<<SumRows(arrs)>>, FlatAll(arrs)))

\* np.concatenate(arrs, axis=1): every array needs a second axis
np_concatenate1(arrs) ==
    IF arrs = <<>> THEN Raise("ValueError")
    ELSE IF \E k \in 1..Len(arrs) : ndim(arrs[k]) = 0 THEN Raise("ValueError")
    ELSE IF \E k \in 1..Len(arrs) : ndim(arrs[k]) # ndim(arrs[1]) THEN Raise("ValueError")
    ELSE IF ndim(arrs[1]) < 2 THEN Raise("AxisError")
    ELSE IF \E k \in 1..Len(arrs) : arrs[k].shape[1] # arrs[1].shape[1]
    THEN Raise("ValueError")
    ELSE Ok(Arr(<<arrs[1].shape[1], SumCols(arrs)>>,
                RowsFrom(arrs, 1, arrs[1].shape[1])))

RECURSIVE Dot(_, _, _, _, _)
Dot(a, b, i, j, k) ==
    IF k = 0 THEN 0 ELSE At(a, i, k) * At(b, k, j) + Dot(a, b, i, j, k - 1)

\* np.matmul(a, b) of two matrices (gradient_forward hands it the results of
\* the two concatenations, which are matrices)
np_matmul(a, b) ==
    IF a.shape[2] # b.shape[1] THEN Raise("ValueError")
    ELSE LET r == a.shape[1]
             c == b.shape[2]
         IN Ok(Arr(<<r, c>>,
                   [k \in 1..(r * c) |->
                       Dot(a, b, ((k - 1) \div c) + 1, ((k - 1) % c) + 1, a.shape[2])]))

(* ------------------------------ inputs --------------------------------- *)

\* a positional input of a block application: a Variable (by its position
\* in the list of Variables built so far) or a plain array (a constant)
VarArg(i) == [isvar |-> TRUE, id |-> i, data |-> variables[i].data]

ConstArg(a) == [isvar |-> FALSE, id |-> 0, data |-> a]

\* 1-D array of n equal elements
Full(n, x) == Arr(<<n>>, [k \in 1..n |-> x])

\* elementwise map and product of 1-D arrays of one length
RECURSIVE ProdAt(_, _, _)
ProdAt(args, skip, k) ==
    IF args = <<>> THEN 1
    ELSE (IF skip = 1 THEN 1 ELSE Head(args).data.v[k]) * ProdAt(Tail(args), skip - 1, k)

(* ------------------------- the blocks applied -------------------------- *)

\* "Block": the base class itself.  "NoJacobians": a Block overriding data_fn
\* only.  "NoGradient": a SimpleBlock overriding data_fn only.  "square" and
\* "poly": SimpleBlocks x^2 and x^2 + x - 1.  "multiply": the elementwise
\* product of its inputs.
SimpleBlocks == {"NoGradient", "square", "poly"}

Blocks == {"Block", "NoJacobians", "multiply"} \cup SimpleBlocks

data_fn(block, args) ==
    LET x == args[1].data
    IN CASE block = "Block" -> Raise("NotImplementedError")
         [] block = "NoJacobians" -> Ok(x)
         [] block = "NoGradient" -> Ok(x)
         [] block = "square" -> Ok(Arr(x.shape, [k \in 1..Len(x.v) |-> x.v[k] * x.v[k]]))
         [] block = "poly" ->
                Ok(Arr(x.shape, [k \in 1..Len(x.v) |-> x.v[k] * x.v[k] + x.v[k] - 1]))
         [] block = "multiply" -> Ok(Arr(x.shape, [k \in 1..Len(x.v) |-> ProdAt(args, 0, k)]))

gradient_fn(block, args) ==
    LET x == args[1].data
    IN CASE block = "NoGradient" -> Raise("NotImplementedError")
         [] block = "square" -> Ok(Arr(x.shape, [k \in 1..Len(x.v) |-> 2 * x.v[k]]))
         [] block = "poly" -> Ok(Arr(x.shape, [k \in 1..Len(x.v) |-> 2 * x.v[k] + 1]))

\* a faulty variant of jacobian_of: every entry filled, not only the diagonal
jacobian_of_dense(elts) ==
    IF ndim(elts) = 1
    THEN LET n == elts.shape[1]
         IN Ok(<<Arr(<<n, n>>, [k \in 1..(n * n) |-> elts.v[((k - 1) \div n) + 1]])>>)
    ELSE Raise("ValueError")

\* SimpleBlock.get_jacobians after gradient_fn returned elts
jacobian_of(elts) ==
    LET jacobian == np_diag(elts)
    IN IF jacobian.err # "" THEN jacobian ELSE Ok(<<jacobian.val>>)

SimpleBlock_get_jacobians(block, args) ==
    LET elts == gradient_fn(block, args)
    IN IF elts.err # "" THEN elts ELSE jacobian_of(elts.val)

get_jacobians(block, args) ==
    IF block \in SimpleBlocks THEN SimpleBlock_get_jacobians(block, args)
    ELSE IF block = "multiply"
    THEN Ok([j \in 1..Len(args) |->
               np_diag(Arr(args[1].data.shape,
                           [k \in 1..Len(args[1].data.v) |-> ProdAt(args, j, k)])).val])
    ELSE Raise("NotImplementedError")

(* --------------------------- Variable, Node ---------------------------- *)

\* Node(): no child edge, never used
NewNode == [childrens |-> <<>>, times_used |-> 0]

\* Variable(data, gradient): in reverse mode the Variable owns the fresh node
\* numbered node; in forward mode it has no node (0) and carries gradient
Variable(data, gradient, node) ==
    [data |-> data, gradient |-> gradient, node |-> IF mode = "reverse" THEN node ELSE 0]

(* -------------------------- gradient_forward --------------------------- *)

\* the gradient attribute of every input; a plain array has none
input_gradients(args) ==
    IF \E k \in 1..Len(args) : ~args[k].isvar THEN Raise("AttributeError")
    ELSE Ok([k \in 1..Len(args) |-> variables[args[k].id].gradient])

\* a faulty variant of gradient_forward: the block's own jacobian, the gradient
\* of the input dropped
gradient_forward_local(block, args) ==
    LET jacobians == get_jacobians(block, args)
    IN IF jacobians.err # "" THEN jacobians ELSE np_concatenate1(jacobians.val)

gradient_forward(block, args) ==
    LET grads == input_gradients(args)
    IN IF grads.err # "" THEN grads
       ELSE LET input_grad == np_concatenate0(grads.val)
            IN IF input_grad.err # "" THEN input_grad
               ELSE LET jacobians == get_jacobians(block, args)
                    IN IF jacobians.err # "" THEN jacobians
                       ELSE LET jacobian == np_concatenate1(jacobians.val)
                            IN IF jacobian.err # "" THEN jacobian
                               ELSE np_matmul(jacobian.val, input_grad.val)

(* ----------------------- __call__, reverse mode ------------------------ *)

\* the positions (1-based) of the inputs that are Variables
variables_indexes(args) ==
    LET F[k \in 0..Len(args)] ==
            IF k = 0 THEN <<>>
            ELSE IF args[k].isvar THEN Append(F[k - 1], k) ELSE F[k - 1]
    IN F[Len(args)]

\* the node of each input that is a Variable, constants skipped
children_nodes(args) ==
    LET idx == variables_indexes(args)
    IN [k \in 1..Len(idx) |-> variables[args[idx[k]].id].node]

\* a faulty variant of append_edge: the edge lands in the child's own list
append_edge_to_child(ns, out, edge) ==
    [ns EXCEPT ![edge.node].childrens = Append(@, edge)]

\* a faulty variant of append_edge: the edge targets the node it is stored in
append_edge_to_self(ns, out, edge) ==
    [ns EXCEPT ![out].childrens = Append(@, [edge EXCEPT !.node = out])]

\* outputVariable.node.childrens += [edge]
append_edge(ns, out, edge) ==
    [ns EXCEPT ![out].childrens = Append(@, edge)]

\* a faulty variant of increase_counter: a node already counted is not counted again
increase_counter_once(ns, child) ==
    [ns EXCEPT ![child].times_used = 1]

\* children_nodes[i].times_used += 1
increase_counter(ns, child) ==
    [ns EXCEPT ![child].times_used = @ + 1]

\* the loop over variables_indexes: each index is used as it stands to
\* subscript children_nodes and children_jacs; a subscript past the end
\* raises IndexError and leaves what the earlier rounds did
RECURSIVE edges_loop(_, _, _, _, _)
edges_loop(idx, cn, cj, out, ns) ==
    IF idx = <<>> THEN [err |-> "", nodes |-> ns]
    ELSE LET i == Head(idx)
         IN IF i > Len(cn) \/ i > Len(cj) THEN [err |-> "IndexError", nodes |-> ns]
            ELSE edges_loop(Tail(idx), cn, cj, out,
                            increase_counter(
                                append_edge(ns, out, [node |-> cn[i], jacobian |-> cj[i]]),
                                cn[i]))

\* a faulty variant of reverse_variable: the output keeps an explicit gradient
reverse_variable_with_gradient(new_data, node) ==
    Variable(new_data, np_identity(Len(new_data.v)), node)

\* outputVariable = Variable(new_data)
reverse_variable(new_data, node) == Variable(new_data, None, node)

\* what one application does: err is the exception raised ("" when a
\* Variable is returned), out the returned Variable, nodes the nodes after
Returned(v, ns, jacs) == [err |-> "", out |-> <<v>>, nodes |-> ns, jacs |-> jacs]

Raised(e, ns, jacs) == [err |-> e, out |-> <<>>, nodes |-> ns, jacs |-> jacs]

call_reverse(block, args, new_data) ==
    LET cn == children_nodes(args)
        children_jacs == get_jacobians(block, args)
        out == Len(nodes) + 1
    IN IF children_jacs.err # "" THEN Raised(children_jacs.err, nodes, <<>>)
       ELSE LET outputVariable == reverse_variable(new_data, out)
                done == edges_loop(variables_indexes(args), cn, children_jacs.val,
                                   out, Append(nodes, NewNode))
            IN IF done.err # "" THEN Raised(done.err, done.nodes, children_jacs.val)
               ELSE Returned(outputVariable, done.nodes, children_jacs.val)

call_forward(block, args, new_data) ==
    LET new_grad == gradient_forward(block, args)
    IN IF new_grad.err # "" THEN Raised(new_grad.err, nodes, <<>>)
       ELSE Returned(Variable(new_data, new_grad.val, 0), nodes, <<>>)

\* Block.__call__(*args)
call(block, args) ==
    LET new_data == data_fn(block, args)
    IN IF new_data.err # "" THEN Raised(new_data.err, nodes, <<>>)
       ELSE IF mode = "forward" THEN call_forward(block, args, new_data.val)
       ELSE call_reverse(block, args, new_data.val)

(* --------------------------- the state machine ------------------------- *)

Modes == {"forward", "reverse"}

\* the number of positional inputs each block is applied to
Arities(block) ==
    IF block \in SimpleBlocks THEN {1}
    ELSE IF block = "multiply" THEN 2..(MaxInputs - passed)
    ELSE 1..Min(2, MaxInputs - passed)

\* the 1-D leaf inputs
LeafData ==
    UNION {{Arr(<<n>>, v) : v \in [1..n -> LeafVals]} : n \in 1..MaxDim}

\* the plain array passed as a constant, of the leaf's length
Constant == Full(Len(variables[1].data.v), -1)

\* what may be passed at one position
Inputs == {VarArg(i) : i \in 1..Len(variables)} \cup {ConstArg(Constant)}

NoCall ==
    [block |-> "", args |-> <<>>, err |-> "", out |-> 0, pre |-> <<>>, jacs |-> <<>>]

\* one leaf Variable x: in forward mode with the identity as gradient, in
\* reverse mode with a fresh node
Init ==
    /\ mode \in Modes
    /\ \E x \in LeafData :
          variables = <<[data |-> x,
                         gradient |-> IF mode = "forward"
                                      THEN np_identity(Len(x.v)) ELSE None,
                         node |-> IF mode = "reverse" THEN 1 ELSE 0]>>
    /\ nodes = IF mode = "reverse" THEN <<NewNode>> ELSE <<>>
    /\ made = <<[block |-> "", args |-> <<>>]>>
    /\ last = NoCall
    /\ passed = 0
    /\ raised = 0

\* block(*args): the Variable returned, if any, joins the Variables
Apply(block, args) ==
    /\ passed + Len(args) <= MaxInputs
    /\ LET r == call(block, args)
       IN /\ variables' = variables \o r.out
          /\ nodes' = r.nodes
          /\ last' = [block |-> block, args |-> args, err |-> r.err,
                      out |-> IF r.err = "" THEN Len(variables) + 1 ELSE 0,
                      pre |-> nodes, jacs |-> r.jacs]
          /\ made' = IF r.err = "" THEN Append(made, [block |-> block, args |-> args])
                     ELSE made
          /\ raised' = IF r.err = "" THEN raised ELSE raised + 1
    /\ passed' = passed + Len(args)
    /\ UNCHANGED mode

Next ==
    \E block \in Blocks :
        \E n \in Arities(block) :
            \E args \in [1..n -> Inputs] : Apply(block, args)

Spec == Init /\ [][Next]_vars

(* ------------- SimpleBlock.get_jacobians as a pure function ------------ *)

\* the arrays gradient_fn may return: 0-d, 1-D of up to MaxDim elements
\* (the empty one too), 2-D of up to MaxDim rows and columns
DiagArrays ==
    {Arr(<<>>, <<x>>) : x \in DiagVals}
    \cup UNION {{Arr(<<n>>, v) : v \in [1..n -> DiagVals]} : n \in 0..MaxDim}
    \cup UNION {{Arr(<<r, c>>, v) : v \in [1..(r * c) -> DiagVals]} :
                 r \in 1..MaxDim, c \in 1..MaxDim}

\* the array gradient_fn will return is drawn here (held in last.args)
InitJac ==
    /\ mode \in Modes
    /\ variables = <<>>
    /\ nodes = <<>>
    /\ made = <<>>
    /\ \E elts \in DiagArrays : last = [NoCall EXCEPT !.args = <<ConstArg(elts)>>]
    /\ passed = 0
    /\ raised = 0

\* get_jacobians of a SimpleBlock whose gradient_fn returns last.args[1].data
GetJacobians ==
    /\ last.block = ""
    /\ LET r == jacobian_of(last.args[1].data)
       IN last' = [last EXCEPT !.block = "SimpleBlock", !.err = r.err,
                               !.jacs = IF r.err = "" THEN r.val ELSE <<>>]
    /\ UNCHANGED <<mode, variables, nodes, made, passed, raised>>

NextJac == GetJacobians

SpecJac == InitJac /\ [][NextJac]_vars

(* ------------------------------ the claims ----------------------------- *)

\* the blocks that override everything __call__ uses
Implemented == {"square", "poly", "multiply"}

HasVariable(args) == \E k \in 1..Len(args) : args[k].isvar

HasConstant(args) == \E k \in 1..Len(args) : ~args[k].isvar

\* one edge per Variable input, in input order, with the jacobian of its
\* own position
RECURSIVE ExpectedEdges(_, _, _)
ExpectedEdges(args, jacs, k) ==
    IF k > Len(args) THEN <<>>
    ELSE (IF args[k].isvar
          THEN <<[node |-> variables[args[k].id].node, jacobian |-> jacs[k]]>>
          ELSE <<>>) \o ExpectedEdges(args, jacs, k + 1)

\* the nodes of the Variables of the latest application's inputs
InputNodes == {variables[last.args[k].id].node : k \in {j \in 1..Len(last.args) : last.args[j].isvar}}

\* the child edges that target node n in the nodes of the returned Variables
EdgesTo(n) ==
    {<<k, e>> \in (1..Len(variables)) \X (1..MaxInputs) :
        /\ e <= Len(nodes[variables[k].node].childrens)
        /\ nodes[variables[k].node].childrens[e].node = n}

\* G is the square matrix with vec on its diagonal and zero elsewhere
IsDiagOf(G, vec) ==
    /\ G.shape = <<Len(vec), Len(vec)>>
    /\ \A i, j \in 1..Len(vec) : At(G, i, j) = IF i = j THEN vec[i] ELSE 0

\* C1 (as claimed): in reverse mode an application to inputs that mix
\* Variables and constants, in any order, returns a Variable whose node has
\* exactly one edge per Variable input, in input order, holding that input's
\* node and the jacobian of its position.
C1_MixedInputsEdges ==
    (mode = "reverse" /\ last.block \in Implemented
        /\ HasVariable(last.args) /\ HasConstant(last.args))
    => /\ last.err = ""
       /\ nodes[variables[last.out].node].childrens
             = ExpectedEdges(last.args, last.jacs, 1)

\* C2: in reverse mode, while every application has returned a Variable,
\* the times_used of every node is the number of child edges that target it
\* in the nodes of the returned Variables.
C2_TimesUsedCountsEdges ==
    (mode = "reverse" /\ raised = 0)
    => \A n \in 1..Len(nodes) : nodes[n].times_used = Cardinality(EdgesTo(n))

\* C2 witness: a node passed once to each of three applications.
C2_UsedThreeTimes ==
    /\ mode = "reverse" /\ raised = 0
    /\ \E n \in 1..Len(nodes) :
          /\ nodes[n].times_used = 3
          /\ Cardinality({k \in 1..Len(variables) :
                            /\ Len(nodes[variables[k].node].childrens) = 1
                            /\ nodes[variables[k].node].childrens[1].node = n}) = 3

\* C3: in forward mode, a SimpleBlock g applied to the result of a
\* SimpleBlock f applied to the leaf x (gradient the identity) returns data
\* g(f(x)) and the gradient diag(g'(f(x)) * f'(x)); f applied to x alone
\* returns the gradient diag(f'(x)).
C3_ForwardChainRule ==
    mode = "forward" =>
    \A k \in 2..Len(variables) :
        (made[k].block \in SimpleBlocks /\ made[k].args[1].isvar) =>
        LET j == made[k].args[1].id
            gp == gradient_fn(made[k].block, <<VarArg(j)>>).val.v
        IN /\ j = 1 => IsDiagOf(variables[k].gradient, gp)
           /\ (j > 1 /\ made[j].block \in SimpleBlocks /\ made[j].args[1].id = 1) =>
                LET fx == data_fn(made[j].block, <<VarArg(1)>>).val
                    fp == gradient_fn(made[j].block, <<VarArg(1)>>).val.v
                IN /\ variables[k].data = data_fn(made[k].block, <<ConstArg(fx)>>).val
                   /\ IsDiagOf(variables[k].gradient,
                               [i \in 1..Len(fp) |-> gp[i] * fp[i]])

\* C3 witness: poly(square(x)) or square(poly(x)) of a two-element x.
C3_TwoStages ==
    /\ mode = "forward"
    /\ Len(variables[1].data.v) = 2
    /\ \E k \in 2..Len(variables) :
          /\ made[k].block \in SimpleBlocks
          /\ made[k].args[1].id > 1
          /\ made[made[k].args[1].id].block \in SimpleBlocks \ {made[k].block}
          /\ made[made[k].args[1].id].args[1].id = 1

\* C4: a forward-mode application changes no node and returns a Variable
\* with a gradient and no node; a reverse-mode application returns a
\* Variable with a node and no gradient; no Variable has both a gradient
\* and child edges.
C4_ModeIsolation ==
    /\ (mode = "forward" /\ last.block # "") =>
          /\ nodes = last.pre
          /\ last.out # 0 =>
                /\ variables[last.out].node = 0
                /\ variables[last.out].gradient # None
    /\ (mode = "reverse" /\ last.out # 0) =>
          /\ variables[last.out].gradient = None
          /\ variables[last.out].node \in 1..Len(nodes)
    /\ \A k \in 1..Len(variables) :
          ~(/\ variables[k].gradient # None
            /\ variables[k].node # 0
            /\ nodes[variables[k].node].childrens # <<>>)

\* C4 witness: a reverse-mode application of a block to a Variable returned
\* a Variable whose node has an edge.
C4_ReverseReturned ==
    /\ mode = "reverse"
    /\ last.out # 0
    /\ HasVariable(last.args)
    /\ nodes[variables[last.out].node].childrens # <<>>

\* C5 (as claimed): whatever the shape of the array gradient_fn returns,
\* get_jacobians returns one n x n matrix, n the number of elements of that
\* array, with the elements on the diagonal and zero elsewhere.
C5_DiagonalAnyShape ==
    last.block = "SimpleBlock" =>
        /\ last.err = ""
        /\ Len(last.jacs) = 1
        /\ IsDiagOf(last.jacs[1], last.args[1].data.v)

\* C5 (amended): when gradient_fn returns a 1-D array of n elements,
\* get_jacobians returns one n x n matrix with these elements on the
\* diagonal and zero elsewhere.
C5_DiagonalOf1D ==
    (last.block = "SimpleBlock" /\ ndim(last.args[1].data) = 1) =>
        /\ last.err = ""
        /\ Len(last.jacs) = 1
        /\ IsDiagOf(last.jacs[1], last.args[1].data.v)

\* C5 witness: the jacobian of a 1-D array of two nonzero elements.
C5_TwoElements ==
    /\ last.block = "SimpleBlock"
    /\ last.args[1].data.shape = <<2>>
    /\ \A i \in 1..2 : last.args[1].data.v[i] # 0
    /\ last.err = ""

\* C6 (as claimed): applying a block that lacks data_fn, get_jacobians or
\* gradient_fn raises NotImplementedError in both modes, returns no Variable
\* and leaves every existing node as it was.
C6_Unimplemented ==
    last.block \in {"Block", "NoJacobians", "NoGradient"} =>
        /\ last.err = "NotImplementedError"
        /\ last.out = 0
        /\ \A n \in 1..Len(last.pre) : nodes[n] = last.pre[n]

\* C7 (as claimed): in forward mode an application to inputs that include a
\* constant beside Variables returns a Variable holding data_fn of the
\* inputs and a gradient.
C7_ForwardAcceptsConstant ==
    (mode = "forward" /\ last.block \in Implemented
        /\ HasVariable(last.args) /\ HasConstant(last.args))
    => /\ last.err = ""
       /\ variables[last.out].data = data_fn(last.block, last.args).val
       /\ variables[last.out].gradient # None

\* C8: a reverse-mode application leaves the childrens of every node that
\* existed before it unchanged, deletes no node, and changes the times_used
\* only of nodes of its Variable inputs.
C8_ReverseFrame ==
    (mode = "reverse" /\ last.block # "") =>
        /\ Len(nodes) >= Len(last.pre)
        /\ \A n \in 1..Len(last.pre) :
              /\ nodes[n].childrens = last.pre[n].childrens
              /\ nodes[n].times_used # last.pre[n].times_used => n \in InputNodes

\* C8 witness: an application to a Variable and a constant returned, the
\* input's node was counted, and another node existed that is no input.
C8_InputCountedOtherKept ==
    /\ mode = "reverse"
    /\ last.err = "" /\ last.block # ""
    /\ HasConstant(last.args)
    /\ \E n \in 1..Len(last.pre) : nodes[n].times_used = last.pre[n].times_used + 1
    /\ \E n \in 1..Len(last.pre) : n \notin InputNodes /\ nodes[n] = last.pre[n]

\* C9: every child edge of a node targets a node created strictly before
\* it, so the graph has no cycle.
C9_EdgesPointBackward ==
    \A n \in 1..Len(nodes) :
        \A e \in 1..Len(nodes[n].childrens) :
            nodes[n].childrens[e].node \in 1..(n - 1)

\* C9 witness: two later nodes share a child, one of them also reaching it
\* through the other.
C9_SharedChild ==
    \E n, m, w \in 1..Len(nodes) :
        /\ m # w
        /\ \E e \in 1..Len(nodes[m].childrens) : nodes[m].childrens[e].node = n
        /\ \E e \in 1..Len(nodes[w].childrens) : nodes[w].childrens[e].node = n
        /\ \E e \in 1..Len(nodes[w].childrens) : nodes[w].childrens[e].node = m

\* C10 (as claimed): when a reverse-mode application raises, the times_used
\* of every node that existed before it is what it was.
C10_RaiseKeepsCounters ==
    (mode = "reverse" /\ last.err # "") =>
        \A n \in 1..Len(last.pre) : nodes[n].times_used = last.pre[n].times_used

====
